---- MODULE Spec2Model ----
(***************************************************************************)
(* State-machine model of the chat bot core: the Persistence Repository    *)
(* (src/database/crud.py, src/database/models.py), the API Gateway         *)
(* (src/utils/api.py), the File Pipeline (src/utils/file_processing.py)    *)
(* and the handlers that drive them (src/handlers/messages.py,             *)
(* src/handlers/files.py, src/handlers/commands.py).                       *)
(*                                                                         *)
(* The committed content of the SQLite database is the state; every        *)
(* `with DatabaseManager() as db:` block is one unit of work and, as the   *)
(* handlers run on one event loop and hold no await inside such a block,   *)
(* one atomic step.  Python exceptions are modelled as values: an          *)
(* operation yields a record whose field exc names the exception raised    *)
(* ("none" when it returned normally).                                     *)
(***************************************************************************)
EXTENDS Integers, Sequences, FiniteSets, TLC

(***************************************************************************)
(* Bounds of the model.                                                    *)
(***************************************************************************)
\* Seconds the clock may advance (CURRENT_TIMESTAMP has a resolution of 1 s).
MaxTime == 1
\* Operations on users and context the environment starts in one behaviour.
MaxEvents == 3
\* Operations on files (handler events, calls of the File Pipeline and of the
\* Repository's file operations) the environment starts in one behaviour.
MaxFileEvents == 2

(***************************************************************************)
(* Program constants.  The window and the size limit are scaled down: the  *)
(* code reads them only through comparisons and slices, so 2 stands for    *)
(* the 20 messages of config.py:39 and size unit 2 for the 20 MiB of       *)
(* config.py:32.                                                           *)
(***************************************************************************)
MAX_CONTEXT_LENGTH == 2
MAX_FILE_SIZE == 2

\* Config.ALLOWED_FILE_TYPES, as written in the source: file extensions.
ALLOWED_FILE_TYPES == {"txt", "pdf", "doc", "docx", "xls", "xlsx", "png", "jpg", "jpeg"}

\* The CHECK constraint of context.role.
ContextRoles == {"user", "assistant", "system"}

NULL == "NULL"
UNBOUND == "UNBOUND"

(***************************************************************************)
(* Inputs the environment draws from.                                      *)
(***************************************************************************)
Users == {1, 2}
Usernames == {"bob", "al"}
Texts == {"2+2?"}
Answers == {"4"}
\* What a caller of addContextMessage may pass.
Messages == {[role |-> "user", content |-> "2+2?"], [role |-> "assistant", content |-> "4"]}
\* Which statement of a unit of work the storage layer fails (sqlite3.Error).
Failures == {"none", "insert", "prune"}
\* The same for save_file: the INSERT fails, or the SELECT that reads the row
\* back fails and SQLite either keeps the transaction open or rolls it back.
FileFailures == {"none", "insert", "readback", "readback_rollback"}

\* What the chat-completions endpoint may answer: no usable response (transport
\* or HTTP error, timeout, unparsable body), a body without choices, a completion.
ChatResponses ==
    {[present |-> FALSE, choices |-> FALSE, content |-> NULL],
     [present |-> TRUE, choices |-> FALSE, content |-> NULL]}
    \cup {[present |-> TRUE, choices |-> TRUE, content |-> a] : a \in Answers}

\* What the file-processing endpoint may answer; NULL stands for a missing key.
AbsentFileResponse ==
    [present |-> FALSE, status |-> FALSE, text |-> NULL, file_url |-> NULL,
     original_name |-> NULL]
FileResponses ==
    {AbsentFileResponse,
     [present |-> TRUE, status |-> TRUE, text |-> NULL, file_url |-> "http://x/y.pdf",
      original_name |-> "y.pdf"],
     [present |-> TRUE, status |-> TRUE, text |-> "T", file_url |-> NULL,
      original_name |-> NULL],
     [present |-> TRUE, status |-> TRUE, text |-> NULL, file_url |-> NULL,
      original_name |-> NULL],
     [present |-> TRUE, status |-> FALSE, text |-> NULL, file_url |-> "http://x/y.pdf",
      original_name |-> "y.pdf"]}
\* How a download ends: complete, failed before the file was opened, failed
\* after some bytes were written.
DownloadOutcomes == {"ok", "fail_before", "fail_partial"}
\* What GET /models may answer: nothing usable, a body without data, a list.
ModelsResponses ==
    {[present |-> FALSE, data |-> NULL], [present |-> TRUE, data |-> NULL],
     [present |-> TRUE, data |-> "gpt-4"]}
\* How GET /health ends: status 200, another status, a RequestException.
HealthOutcomes == {"200", "503", "fail"}
\* Message sequences and URLs a direct caller of the Gateway passes.
RequestMessages == {<<>>, <<[role |-> "user", content |-> "2+2?"]>>}
FileUrls == {"http://x/y.pdf"}
SaveNames == {"y.pdf", "processed_file"}
\* Documents a user may upload: [name, size].
OriginalNames == {"a.txt", "noext"}
FileSizes == {1, 3}
\* The file a direct caller of process_file passes: missing, or of some size.
InputFiles == {[exists |-> FALSE, size |-> 0]} \cup {[exists |-> TRUE, size |-> s] : s \in FileSizes}
Models == {"gpt-4"}
\* file_uid values a caller of the Repository passes itself.
CallerUids == {101}
NoPath == [kind |-> "none", uid |-> 0, name |-> ""]

VARIABLES
    users,      \* table users: set of rows [id, username, model]
    context,    \* table context: set of rows [id, user_id, role, content, timestamp]
    ctxSeq,     \* AUTOINCREMENT counter of context.id (last id handed out)
    files,      \* table files: set of rows [id, user_id, file_uid, file_type, file_path,
                \*   original_name, processed]
    fileSeq,    \* AUTOINCREMENT counter of files.id
    disk,       \* the files of TEMP_DIR: set of [path, size, partial, expired]
    uuidSeq,    \* number of identifiers generate_file_id has handed out
    tasks,      \* save_file calls suspended in `await file.download_to_drive(...)`
    now,        \* the clock CURRENT_TIMESTAMP reads, in seconds
    added,      \* per user: the ids of the rows whose INSERT was committed since the
                \*   last clear_context, in call order
    savedUids,  \* file_uids whose INSERT INTO files was accepted with no storage error
    markedUids, \* file_uids for which mark_file_processed returned True
    events,     \* number of user and context operations started so far
    fileEvents, \* number of file operations started so far
    lastOp      \* the last completed operation, its inputs and what it returned

vars == <<users, context, ctxSeq, files, fileSeq, disk, uuidSeq, tasks, now, added,
          savedUids, markedUids, events, fileEvents, lastOp>>

(***************************************************************************)
(* Sequences helpers.                                                      *)
(***************************************************************************)
\* Python's s[-n:] for n >= 1: the last n entries of s (all of s when shorter).
LastN(s, n) ==
    IF Len(s) <= n THEN s ELSE SubSeq(s, Len(s) - n + 1, Len(s))

Min(a, b) == IF a <= b THEN a ELSE b

\* All orderings of the finite set S as sequences without repetition.
Perms(S) ==
    {s \in [1..Cardinality(S) -> S] : \A i, j \in 1..Cardinality(S) : i # j => s[i] # s[j]}

(***************************************************************************)
(* Python object construction from a fetched row.                          *)
(* get_db_connection sets no row_factory, so a cursor yields plain tuples. *)
(***************************************************************************)
row_factory == "tuple"

\* len() of the strings a context row carries in its first column.
StrLen(s) ==
    CASE s = "user" -> 4
      [] s = "assistant" -> 9
      [] s = "system" -> 6
      [] OTHER -> 1

\* User(**row) and File(**row): the exception raised, "none" for a mapping.
ConstructFromRow ==
    IF row_factory = "Row" THEN "none" ELSE "TypeError"

\* dict(row) for a context row (role, content): a tuple converts only when
\* each of its elements is itself a pair.
DictOfContextRow(row) ==
    IF row_factory = "Row" THEN "none"
    ELSE IF StrLen(row.role) = 2 /\ StrLen(row.content) = 2 THEN "none"
    ELSE "ValueError"

(***************************************************************************)
(* Repository: users.                                                      *)
(***************************************************************************)
UserIds(tbl) == {r.id : r \in tbl}

\* INSERT OR REPLACE INTO users (id, username): the row of that id is rewritten.
create_user_Replace(tbl, user_id, username) ==
    {r \in tbl : r.id # user_id} \cup {[id |-> user_id, username |-> username, model |-> NULL]}

\* INSERT OR IGNORE INTO users (id, username): a row with that id is kept as is.
create_user(tbl, user_id, username) ==
    IF user_id \in UserIds(tbl) THEN tbl
    ELSE tbl \cup {[id |-> user_id, username |-> username, model |-> NULL]}

\* get_user: fetchone() is None for an unknown id; otherwise User(**row).
\* val is the model of the user; exc the exception raised on the way.
get_user(tbl, user_id) ==
    IF user_id \notin UserIds(tbl) THEN [exc |-> "none", found |-> FALSE, model |-> NULL]
    ELSE LET row == CHOOSE r \in tbl : r.id = user_id
         IN  IF ConstructFromRow = "none"
             THEN [exc |-> "none", found |-> TRUE, model |-> row.model]
             ELSE [exc |-> ConstructFromRow, found |-> FALSE, model |-> NULL]

\* update_user_model: UPDATE users SET model = ? WHERE id = ?; rowcount > 0.
update_user_model(tbl, user_id, model) ==
    [users |-> {IF r.id = user_id THEN [r EXCEPT !.model = model] ELSE r : r \in tbl},
     changed |-> user_id \in UserIds(tbl)]

\* `db.get_user(user.id).model`: attribute access on None raises.
get_user_model(tbl, user_id) ==
    LET r == get_user(tbl, user_id)
    IN  IF r.exc # "none" THEN [exc |-> r.exc, model |-> UNBOUND]
        ELSE IF ~r.found THEN [exc |-> "AttributeError", model |-> UNBOUND]
        ELSE [exc |-> "none", model |-> r.model]

(***************************************************************************)
(* Repository: context.                                                    *)
(***************************************************************************)
RowsOf(ctx, user_id) == {r \in ctx : r.user_id = user_id}

\* SELECT id FROM context WHERE user_id = ? ORDER BY timestamp DESC LIMIT ?:
\* the sets of rows the subquery may select.  Rows of equal timestamp are in
\* no defined order, so any of them may fall on either side of the LIMIT.
NewestByTimestamp(ctx, user_id, limit) ==
    LET rows == RowsOf(ctx, user_id)
        n == Min(limit, Cardinality(rows))
    IN  {K \in SUBSET rows :
            /\ Cardinality(K) = n
            /\ \A k \in K : \A r \in rows \ K : k.timestamp >= r.timestamp}

\* A DELETE without `AND user_id = ?`.
PruneResults_AllUsers(ctx, user_id) ==
    NewestByTimestamp(ctx, user_id, MAX_CONTEXT_LENGTH)

\* DELETE FROM context WHERE id NOT IN (<subquery>) AND user_id = ?
PruneResults(ctx, user_id) ==
    {(ctx \ RowsOf(ctx, user_id)) \cup K :
        K \in NewestByTimestamp(ctx, user_id, MAX_CONTEXT_LENGTH)}

\* The INSERT of add_message_to_context: the foreign key to users(id) and the
\* CHECK on role are enforced (PRAGMA foreign_keys = ON).
InsertAccepted(tbl, user_id, role, fail) ==
    /\ fail # "insert"
    /\ user_id \in UserIds(tbl)
    /\ role \in ContextRoles

\* add_message_to_context inside its unit of work: the possible committed
\* outcomes [context, ctxSeq, inserted].  A sqlite3.Error of either statement
\* is caught inside the method, so __exit__ sees no exception and commits
\* whatever the transaction then holds.  When the DELETE fails, SQLite undoes
\* that statement alone and keeps the INSERT, or, for some errors, rolls the
\* whole transaction back: both outcomes are possible.
add_message_to_context(ctx, seq, tbl, user_id, role, content, ts, fail) ==
    IF ~InsertAccepted(tbl, user_id, role, fail)
    THEN {[context |-> ctx, ctxSeq |-> seq, inserted |-> FALSE]}
    ELSE LET row == [id |-> seq + 1, user_id |-> user_id, role |-> role,
                     content |-> content, timestamp |-> ts]
             withRow == ctx \cup {row}
         IN  IF fail = "prune"
             THEN {[context |-> withRow, ctxSeq |-> seq + 1, inserted |-> TRUE],
                   [context |-> ctx, ctxSeq |-> seq, inserted |-> FALSE]}
             ELSE {[context |-> c, ctxSeq |-> seq + 1, inserted |-> TRUE] :
                      c \in PruneResults(withRow, user_id)}

\* SELECT role, content FROM context WHERE user_id = ? ORDER BY timestamp ASC:
\* the row sequences the query may return (ties in any order).
SelectContext(ctx, user_id) ==
    {s \in Perms(RowsOf(ctx, user_id)) :
        \A i, j \in 1..Len(s) : i < j => s[i].timestamp <= s[j].timestamp}

\* One turn as the handlers and the Gateway see it.
Turn(row) == [role |-> row.role, content |-> row.content]

\* get_context: [dict(row) for row in fetchall()].  A ValueError is no
\* sqlite3.Error: it leaves the method and the unit of work.
get_context(ctx, user_id) ==
    {IF \E i \in 1..Len(s) : DictOfContextRow(s[i]) # "none"
        THEN [exc |-> "ValueError", val |-> <<>>]
        ELSE [exc |-> "none", val |-> [i \in 1..Len(s) |-> Turn(s[i])]] :
     s \in SelectContext(ctx, user_id)}

\* clear_context that reports success whatever the DELETE removed.
clear_context_AlwaysTrue(ctx, user_id, fail) ==
    IF fail # "none" THEN [context |-> ctx, removed |-> FALSE]
    ELSE [context |-> ctx \ RowsOf(ctx, user_id), removed |-> TRUE]

\* clear_context: DELETE FROM context WHERE user_id = ?; rowcount > 0.  A
\* sqlite3.Error of the DELETE is caught and False returned.
clear_context(ctx, user_id, fail) ==
    IF fail # "none" THEN [context |-> ctx, removed |-> FALSE]
    ELSE [context |-> ctx \ RowsOf(ctx, user_id), removed |-> RowsOf(ctx, user_id) # {}]

(***************************************************************************)
(* The unit of work: DatabaseManager.__exit__.  An exception that reaches  *)
(* it rolls the transaction back; otherwise the transaction is committed.  *)
(* It returns True, so the exception is swallowed and the statements after *)
(* the with block run with whatever the block had bound before it raised.  *)
(***************************************************************************)
Exit(before, after, exc) ==
    IF exc # "none" THEN before ELSE after

(***************************************************************************)
(* API Gateway: chat.                                                      *)
(***************************************************************************)
HttpRequest(endpoint, model, messages, size, url) ==
    [endpoint |-> endpoint, model |-> model, messages |-> messages, size |-> size, url |-> url]

\* A _make_request that sends the request again when the first attempt failed.
_make_request_Retry(req, resp) ==
    [http |-> IF resp.present THEN <<req>> ELSE <<req, req>>, val |-> resp]

\* _make_request: one requests.request(...); a RequestException (HTTP error
\* status, timeout, no connection) or any other exception yields None, which
\* is a response with present = FALSE.
_make_request(req, resp) ==
    [http |-> <<req>>, val |-> resp]

\* send_chat_request -> _make_request: one POST; every failure yields None.
send_chat_request(model, messages, resp) ==
    _make_request(HttpRequest("chat/completions", model, messages, 0, ""), resp)

\* get_available_models: `response.get('data') if response else None`.
get_available_models(resp) ==
    LET got == _make_request(HttpRequest("models", NULL, <<>>, 0, ""), resp)
    IN  [http |-> got.http, val |-> IF got.val.present THEN got.val.data ELSE NULL]

\* check_api_status: one requests.get of /health with its own try block;
\* True iff the status code is 200, False on a RequestException.
check_api_status(outcome) ==
    [http |-> <<HttpRequest("health", NULL, <<>>, 0, "")>>, val |-> outcome = "200"]

(***************************************************************************)
(* handle_text.                                                            *)
(***************************************************************************)
\* The imports of handlers/messages.py hold no logging module, and its except
\* clause calls logging.error: the NameError leaves the handler.
messages_imports_logging == FALSE

TextOutcome(ctx, seq, inserted, exc, reply, http) ==
    [context |-> ctx, ctxSeq |-> seq, inserted |-> inserted, exc |-> exc,
     reply |-> reply, http |-> http]

\* `except Exception as e: logging.error(...); await message.answer(...)`.
handle_text_except(ctx, seq, http) ==
    IF messages_imports_logging
    THEN TextOutcome(ctx, seq, FALSE, "none", "request_error", http)
    ELSE TextOutcome(ctx, seq, FALSE, "NameError", "", http)

\* The handler up to its last await: the possible outcomes.  There is no
\* await between its first statement and the reply, so it is one step.
handle_text(ctx, seq, tbl, user_id, text, resp, ts) ==
    UNION {
        LET um == get_user_model(tbl, user_id)
            \* first unit of work: a raise inside it is swallowed by __exit__ and
            \* leaves the names assigned after it unbound
            ctxBound == gc.exc = "none"
            user_model == IF ctxBound /\ um.exc = "none" THEN um.model ELSE UNBOUND
            messages == LastN(Append(gc.val, [role |-> "user", content |-> text]),
                              MAX_CONTEXT_LENGTH)
            sent == send_chat_request(user_model, messages, resp)
        IN  IF ~ctxBound \/ user_model = UNBOUND
            THEN \* context.append / model=user_model: UnboundLocalError
                 {handle_text_except(ctx, seq, <<>>)}
            ELSE IF ~sent.val.present \/ ~sent.val.choices
            THEN {TextOutcome(ctx, seq, FALSE, "none", "no_answer", sent.http)}
            ELSE {TextOutcome(o.context, o.ctxSeq, o.inserted, "none", sent.val.content,
                              sent.http) :
                     o \in UNION {add_message_to_context(ctx, seq, tbl, user_id, "assistant",
                                                         sent.val.content, ts, fail) :
                                     fail \in Failures}}
        : gc \in get_context(ctx, user_id)}
(***************************************************************************)
(* Repository: files.                                                      *)
(***************************************************************************)
FileUidsOf(tbl) == {r.file_uid : r \in tbl}

NoRecord ==
    [id |-> 0, user_id |-> 0, file_uid |-> 0, file_type |-> "", file_path |-> NoPath,
     original_name |-> "", processed |-> FALSE]

\* crud.save_file(user_id, file_uid, file_type, file_path, original_name): the
\* signature has no parameter `processed`.
crud_save_file_takes_processed == FALSE

\* The INSERT with no UNIQUE constraint on file_uid.
FileInsertAccepted_NoUnique(tbl, usersTbl, user_id, file_uid, fail) ==
    /\ fail # "insert"
    /\ user_id \in UserIds(usersTbl)

\* INSERT INTO files (...): the foreign key to users(id) and UNIQUE(file_uid).
FileInsertAccepted(tbl, usersTbl, user_id, file_uid, fail) ==
    /\ fail # "insert"
    /\ user_id \in UserIds(usersTbl)
    /\ file_uid \notin FileUidsOf(tbl)

\* crud.save_file inside its unit of work.  tbl is the table the transaction
\* leaves when it is committed; exc the exception that leaves the method (a
\* sqlite3.Error does not: it is caught and None returned); returned says
\* whether a File came back; accepted whether the INSERT was executed.
crud_save_file(tbl, seq, usersTbl, user_id, file_uid, file_type, file_path, original_name, processed, fail) ==
    IF ~FileInsertAccepted(tbl, usersTbl, user_id, file_uid, fail)
    THEN [files |-> tbl, fileSeq |-> seq, exc |-> "none", returned |-> FALSE,
          accepted |-> FALSE]
    ELSE LET row == [id |-> seq + 1, user_id |-> user_id, file_uid |-> file_uid,
                     file_type |-> file_type, file_path |-> file_path,
                     original_name |-> original_name, processed |-> processed]
         IN  CASE fail = "readback" ->
                    \* sqlite3.Error of the SELECT: caught, None returned, and
                    \* __exit__ commits the INSERT
                    [files |-> tbl \cup {row}, fileSeq |-> seq + 1, exc |-> "none",
                     returned |-> FALSE, accepted |-> TRUE]
               [] fail = "readback_rollback" ->
                    [files |-> tbl, fileSeq |-> seq, exc |-> "none",
                     returned |-> FALSE, accepted |-> TRUE]
               [] OTHER ->
                    [files |-> tbl \cup {row}, fileSeq |-> seq + 1, exc |-> ConstructFromRow,
                     returned |-> ConstructFromRow = "none", accepted |-> TRUE]

\* get_file_by_uid: fetchone() and File(**row).
get_file_by_uid(tbl, file_uid) ==
    IF file_uid \notin FileUidsOf(tbl) THEN [exc |-> "none", found |-> FALSE, rec |-> NoRecord]
    ELSE IF ConstructFromRow # "none"
    THEN [exc |-> ConstructFromRow, found |-> FALSE, rec |-> NoRecord]
    ELSE [exc |-> "none", found |-> TRUE, rec |-> CHOOSE r \in tbl : r.file_uid = file_uid]

\* mark_file_processed: UPDATE files SET processed = 1 WHERE file_uid = ?
mark_file_processed(tbl, file_uid) ==
    [files |-> {IF r.file_uid = file_uid THEN [r EXCEPT !.processed = TRUE] ELSE r : r \in tbl},
     changed |-> file_uid \in FileUidsOf(tbl)]

(***************************************************************************)
(* TEMP_DIR.                                                               *)
(***************************************************************************)
DiskPaths(d) == {f.path : f \in d}

\* open(path, 'wb') and write: an existing file of that path is replaced.
DiskWrite(d, path, size, partial) ==
    {f \in d : f.path # path}
        \cup {[path |-> path, size |-> size, partial |-> partial, expired |-> FALSE]}

\* An unlink that removes nothing.
DiskUnlink_Noop(d, path) == d

\* Path.unlink(missing_ok=True)
DiskUnlink(d, path) == {f \in d : f.path # path}

\* No file: the value of "no file failed".
NoFile == [path |-> NoPath, size |-> 0, partial |-> FALSE, expired |-> FALSE]

\* A sweep in which every file has a try of its own.
cleanup_temp_files_PerFile(d, order, failing) ==
    {f \in d : ~f.expired \/ f = failing}

\* cleanup_temp_files: iterdir() yields the files in some order; a file whose
\* mtime is older than the retention age is unlinked.  The loop stands in
\* one try: an exception at a file (stat or unlink) ends the sweep there.
\* `expired` abstracts (now - mtime) > timedelta(hours=older_than_hours).
cleanup_temp_files(d, order, failing) ==
    LET n == Len(order)
        stop == IF \E i \in 1..n : order[i] = failing
                THEN CHOOSE i \in 1..n : order[i] = failing
                ELSE n + 1
    IN  d \ {order[i] : i \in {j \in 1..n : j < stop /\ order[j].expired}}

\* temp_dir / f"{file_id}.{file_extension}"
UploadPath(file_id, file_extension) ==
    [kind |-> "upload", uid |-> file_id, name |-> file_extension]

\* temp_dir / f"processed_{original_name}"
ProcessedPath(original_name) ==
    [kind |-> "processed", uid |-> 0, name |-> original_name]

\* original_name.split('.')[-1].lower(): a name without a dot is its own extension.
FileExtension(original_name) ==
    CASE original_name = "a.txt" -> "txt"
      [] original_name = "y.pdf" -> "pdf"
      [] original_name = "c.png" -> "png"
      [] OTHER -> original_name

\* mimetypes.guess_type(path)[0].split('/')[0]; NULL when the type is unknown.
MimeMainType(file_extension) ==
    CASE file_extension \in {"txt"} -> "text"
      [] file_extension \in {"pdf", "doc", "docx", "xls", "xlsx"} -> "application"
      [] file_extension \in {"png", "jpg", "jpeg"} -> "image"
      [] OTHER -> NULL

\* _validate_file, as the reason of its verdict ("ok" when it returns True).
ValidationVerdict(size, file_extension) ==
    IF size > MAX_FILE_SIZE THEN "too_large"
    ELSE IF MimeMainType(file_extension) = NULL THEN "unknown_type"
    ELSE IF MimeMainType(file_extension) \notin ALLOWED_FILE_TYPES THEN "unsupported_type"
    ELSE "ok"

_validate_file(size, file_extension) == ValidationVerdict(size, file_extension) = "ok"

(***************************************************************************)
(* API Gateway: files.                                                     *)
(***************************************************************************)
\* APIHandler.process_file without its size check.
api_process_file_NoSizeCheck(exists, size, model, resp) ==
    IF ~exists THEN [http |-> <<>>, val |-> AbsentFileResponse]
    ELSE [http |-> <<HttpRequest("file/process", model, <<>>, size, "")>>, val |-> resp]

\* APIHandler.process_file: a missing or oversized file is refused before any
\* request; otherwise one multipart POST.
api_process_file(exists, size, model, resp) ==
    IF ~exists THEN [http |-> <<>>, val |-> AbsentFileResponse]
    ELSE IF size > MAX_FILE_SIZE THEN [http |-> <<>>, val |-> AbsentFileResponse]
    ELSE _make_request(HttpRequest("file/process", model, <<>>, size, ""), resp)

\* download_processed_file: one GET; the file is opened for writing once the
\* response arrived, and any exception yields False.
download_processed_file(d, file_url, save_path, dl) ==
    [http |-> <<HttpRequest("download", NULL, <<>>, 0, file_url)>>,
     ok |-> dl = "ok",
     disk |-> CASE dl = "ok" -> DiskWrite(d, save_path, 1, FALSE)
                [] dl = "fail_partial" -> DiskWrite(d, save_path, 1, TRUE)
                [] OTHER -> d]

(***************************************************************************)
(* File Pipeline.                                                          *)
(***************************************************************************)
PipeOutcome(tbl, seq, d, uuid, result, reason, http, accepted) ==
    [files |-> tbl, fileSeq |-> seq, disk |-> d, uuidSeq |-> uuid, result |-> result,
     reason |-> reason, http |-> http, accepted |-> accepted]

\* FileProcessor.save_file from the return of `await file.download_to_drive`.
save_file_after_download(tbl, seq, usersTbl, d, uuid, task, outcome) ==
    LET ext == FileExtension(task.name)
        path == UploadPath(task.uid, ext)
        d1 == DiskWrite(d, path, task.size, FALSE)
        verdict == ValidationVerdict(task.size, ext)
        r == crud_save_file(tbl, seq, usersTbl, task.user, task.uid, ext, path, task.name,
                            FALSE, "none")
    IN  IF outcome # "ok"
        THEN \* the download raised: `except Exception` returns None
             PipeOutcome(tbl, seq,
                         IF outcome = "fail_partial" THEN DiskWrite(d, path, 1, TRUE) ELSE d,
                         uuid, "none", "download_failed", <<>>, {})
        ELSE IF ~_validate_file(task.size, ext)
        THEN PipeOutcome(tbl, seq, DiskUnlink(d1, path), uuid, "none", verdict, <<>>, {})
        ELSE IF r.returned
        THEN PipeOutcome(Exit(tbl, r.files, r.exc), Exit(seq, r.fileSeq, r.exc), d1, uuid,
                         "info", "ok", <<>>, {task.uid})
        ELSE \* file_data is None or unbound: `file_data.id` raises, None is returned
             PipeOutcome(Exit(tbl, r.files, r.exc), Exit(seq, r.fileSeq, r.exc), d1, uuid,
                         "none", "record_failed", <<>>,
                         IF r.accepted THEN {task.uid} ELSE {})

\* A _handle_file_response that does not look at what the download returned.
_handle_file_response_IgnoreDownload(tbl, seq, usersTbl, d, uuid, resp, user_id, dl) ==
    LET original_name == IF resp.original_name = NULL THEN "processed_file"
                         ELSE resp.original_name
        got == download_processed_file(d, resp.file_url, ProcessedPath(original_name), dl)
    IN  PipeOutcome(tbl, seq, got.disk, uuid + 1, "file",
                    IF got.ok THEN "ok" ELSE "download_failed", got.http, {})

\* _handle_file_response: download, then the record of the result.
_handle_file_response(tbl, seq, usersTbl, d, uuid, resp, user_id, dl) ==
    LET original_name == IF resp.original_name = NULL THEN "processed_file"
                         ELSE resp.original_name
        save_path == ProcessedPath(original_name)
        got == download_processed_file(d, resp.file_url, save_path, dl)
        \* generate_file_id() is evaluated as an argument before the call
        r == crud_save_file(tbl, seq, usersTbl, user_id, uuid + 1,
                            FileExtension(original_name), save_path, original_name,
                            TRUE, "none")
        exc == IF crud_save_file_takes_processed THEN r.exc ELSE "TypeError"
    IN  IF ~got.ok
        THEN PipeOutcome(tbl, seq, got.disk, uuid, "none", "download_failed", got.http, {})
        ELSE PipeOutcome(Exit(tbl, r.files, exc), Exit(seq, r.fileSeq, exc), got.disk,
                         uuid + 1, "file", "ok", got.http, {})

\* FileProcessor.process_file: the possible outcomes over the download's fate.
process_file(tbl, seq, usersTbl, d, uuid, exists, size, user_id, model, resp) ==
    LET sent == api_process_file(exists, size, model, resp)
        none == PipeOutcome(tbl, seq, d, uuid, "none", "no_result", sent.http, {})
    IN  IF ~sent.val.present \/ ~sent.val.status THEN {none}
        ELSE IF sent.val.file_url # NULL
        THEN {LET h == _handle_file_response(tbl, seq, usersTbl, d, uuid, sent.val, user_id, dl)
              IN  [h EXCEPT !.http = sent.http \o h.http] : dl \in DownloadOutcomes}
        ELSE IF sent.val.text # NULL
        THEN {PipeOutcome(tbl, seq, d, uuid, "text", "ok", sent.http, {})}
        ELSE {none}

\* handle_document from the return of save_file to its last reply: the possible
\* [out, reply].  The `await message.answer(...)` between the model lookup and
\* process_file touches no state of the core, so the steps are taken as one.
handle_document_after_save(saved, usersTbl, task) ==
    LET um == get_user_model(usersTbl, task.user)
        user_model == IF um.exc = "none" THEN um.model ELSE UNBOUND
        path == UploadPath(task.uid, FileExtension(task.name))
    IN  IF saved.result # "info"
        THEN {[out |-> saved, reply |-> "save_error"]}
        ELSE IF user_model = UNBOUND
        THEN \* model=user_model: UnboundLocalError, caught by `except Exception`
             {[out |-> saved, reply |-> "critical_error"]}
        ELSE UNION {
                {[out |-> [p EXCEPT !.accepted = saved.accepted],
                  reply |-> CASE p.result = "file" -> "document"
                              [] p.result = "text" -> "text_result"
                              [] OTHER -> "process_error"] :
                    p \in process_file(saved.files, saved.fileSeq, usersTbl, saved.disk,
                                       saved.uuidSeq, path \in DiskPaths(saved.disk),
                                       task.size, task.user, user_model, resp)}
                : resp \in FileResponses}
(***************************************************************************)
(* The observation record of the last completed operation.                 *)
(***************************************************************************)
NoOp ==
    [op |-> "none", user |-> 0, text |-> "", name |-> "", size |-> 0, exists |-> FALSE,
     uid |-> 0, resp |-> [present |-> FALSE, choices |-> FALSE, content |-> NULL],
     fresp |-> AbsentFileResponse, exc |-> "none", reply |-> "", result |-> "none",
     reason |-> "", turns |-> <<>>, http |-> <<>>, before |-> {}, rec |-> NoRecord,
     path |-> NoPath, file |-> NoFile]

(***************************************************************************)
(* Initial state: the database as initialize_database leaves it, an empty  *)
(* TEMP_DIR.                                                               *)
(***************************************************************************)
Init ==
    /\ users = {}
    /\ context = {}
    /\ ctxSeq = 0
    /\ files = {}
    /\ fileSeq = 0
    /\ disk = {}
    /\ uuidSeq = 0
    /\ tasks = {}
    /\ now = 0
    /\ added = [u \in Users |-> <<>>]
    /\ savedUids = {}
    /\ markedUids = {}
    /\ events = 0
    /\ fileEvents = 0
    /\ lastOp = NoOp

ctxVars == <<context, ctxSeq, added>>
fileVars == <<files, fileSeq, disk, uuidSeq, tasks, savedUids, markedUids>>
budgets == <<events, fileEvents>>

(***************************************************************************)
(* Actions.                                                                *)
(***************************************************************************)
\* One second passes.
Tick ==
    /\ now < MaxTime
    /\ now' = now + 1
    /\ UNCHANGED <<users, ctxVars, fileVars, budgets, lastOp>>

\* cmd_start: `with DatabaseManager() as db: db.create_user(...)`.
CmdStart(u, name) ==
    /\ users' = create_user(users, u, name)
    /\ lastOp' = [NoOp EXCEPT !.op = "cmd_start", !.user = u, !.name = name]
    /\ UNCHANGED <<ctxVars, fileVars, now, budgets>>

\* `with DatabaseManager() as db: success = db.update_user_model(u, model)`.
UpdateUserModel(u, model) ==
    LET r == update_user_model(users, u, model)
    IN  /\ events < MaxEvents
        /\ events' = events + 1
        /\ users' = r.users
        /\ lastOp' = [NoOp EXCEPT !.op = "update_user_model", !.user = u,
                                  !.result = IF r.changed THEN "true" ELSE "false"]
        /\ UNCHANGED <<fileEvents, ctxVars, fileVars, now>>

\* `with DatabaseManager() as db: db.add_message_to_context(u, role, content)`.
AddContextMessage(u, m, fail) ==
    /\ events < MaxEvents
    /\ events' = events + 1
    /\ \E o \in add_message_to_context(context, ctxSeq, users, u, m.role, m.content, now, fail) :
        /\ context' = o.context
        /\ ctxSeq' = o.ctxSeq
        /\ added' = IF o.inserted THEN [added EXCEPT ![u] = Append(@, o.ctxSeq)] ELSE added
        /\ lastOp' = [NoOp EXCEPT !.op = "add_message_to_context", !.user = u,
                                  !.reason = fail,
                                  !.result = IF o.inserted THEN "stored" ELSE "none"]
    /\ UNCHANGED <<fileEvents, users, fileVars, now>>

\* `with DatabaseManager() as db: r = db.get_context(u)`.
GetContext(u) ==
    /\ events < MaxEvents
    /\ events' = events + 1
    /\ \E r \in get_context(context, u) :
        lastOp' = [NoOp EXCEPT !.op = "get_context", !.user = u,
                               !.exc = r.exc, !.turns = r.val]
    /\ UNCHANGED <<fileEvents, users, ctxVars, fileVars, now>>

\* `with DatabaseManager() as db: r = db.clear_context(u)`.
ClearContext(u, fail) ==
    LET r == clear_context(context, u, fail)
    IN  /\ events < MaxEvents
        /\ events' = events + 1
        /\ context' = r.context
        /\ lastOp' = [NoOp EXCEPT !.op = "clear_context", !.user = u, !.reason = fail,
                                  !.before = RowsOf(context, u),
                                  !.result = IF r.removed THEN "true" ELSE "false"]
        /\ added' = IF fail = "none" THEN [added EXCEPT ![u] = <<>>] ELSE added
        /\ UNCHANGED <<fileEvents, users, ctxSeq, fileVars, now>>

\* A text message reaches handle_text; resp is what the Gateway's endpoint
\* would answer to a chat request.
HandleText(u, text, resp) ==
    /\ events < MaxEvents
    /\ \E o \in handle_text(context, ctxSeq, users, u, text, resp, now) :
        /\ context' = o.context
        /\ ctxSeq' = o.ctxSeq
        /\ added' = IF o.inserted THEN [added EXCEPT ![u] = Append(@, o.ctxSeq)] ELSE added
        /\ lastOp' = [NoOp EXCEPT !.op = "handle_text", !.user = u, !.text = text,
                                  !.resp = resp, !.exc = o.exc, !.reply = o.reply,
                                  !.http = o.http, !.before = RowsOf(context, u)]
    /\ events' = events + 1
    /\ UNCHANGED <<fileEvents, users, fileVars, now>>

\* FileProcessor.save_file up to `await file.download_to_drive(file_path)`:
\* the identifier is generated and the call is suspended in the download.
BeginSave(u, name, size, caller) ==
    /\ uuidSeq' = uuidSeq + 1
    /\ tasks' = tasks \cup {[uid |-> uuidSeq + 1, user |-> u, name |-> name, size |-> size,
                             caller |-> caller]}
    /\ UNCHANGED <<files, fileSeq, disk, savedUids, markedUids>>

\* A document reaches handle_document: the size check, then save_file.
HandleDocument(u, name, size) ==
    /\ fileEvents < MaxFileEvents
    /\ fileEvents' = fileEvents + 1
    /\ IF size > MAX_FILE_SIZE
       THEN /\ lastOp' = [NoOp EXCEPT !.op = "handle_document", !.user = u, !.name = name,
                                      !.size = size, !.exists = TRUE, !.reply = "too_large",
                                      !.reason = "too_large"]
            /\ UNCHANGED fileVars
       ELSE /\ BeginSave(u, name, size, "handler")
            /\ UNCHANGED lastOp
    /\ UNCHANGED <<events, users, ctxVars, now>>

\* FileProcessor.save_file called on its own.
SaveFile(u, name, size) ==
    /\ fileEvents < MaxFileEvents
    /\ fileEvents' = fileEvents + 1
    /\ BeginSave(u, name, size, "direct")
    /\ UNCHANGED <<events, users, ctxVars, now, lastOp>>

\* The download of a suspended save_file ends; save_file runs to its return
\* and, under handle_document, the handler to its last reply.
DownloadDone(t, outcome) ==
    LET saved == save_file_after_download(files, fileSeq, users, disk, uuidSeq, t, outcome)
        path == UploadPath(t.uid, FileExtension(t.name))
    IN  /\ \E h \in IF t.caller = "handler"
                    THEN handle_document_after_save(saved, users, t)
                    ELSE {[out |-> saved, reply |-> ""]} :
            /\ files' = h.out.files
            /\ fileSeq' = h.out.fileSeq
            /\ disk' = h.out.disk
            /\ uuidSeq' = h.out.uuidSeq
            /\ savedUids' = savedUids \cup h.out.accepted
            /\ UNCHANGED markedUids
            /\ lastOp' = [NoOp EXCEPT !.op = IF t.caller = "handler" THEN "handle_document"
                                             ELSE "save_file",
                                      !.user = t.user, !.name = t.name, !.size = t.size,
                                      !.exists = TRUE, !.uid = t.uid, !.path = path,
                                      !.reply = h.reply, !.result = h.out.result,
                                      !.reason = saved.reason, !.http = h.out.http]
        /\ tasks' = tasks \ {t}
        /\ UNCHANGED <<users, ctxVars, now, budgets>>

\* FileProcessor.process_file called on its own, on a file the caller names.
ProcessFile(u, model, f, resp) ==
    /\ fileEvents < MaxFileEvents
    /\ fileEvents' = fileEvents + 1
    /\ \E o \in process_file(files, fileSeq, users, disk, uuidSeq, f.exists, f.size, u, model,
                             resp) :
        /\ files' = o.files
        /\ fileSeq' = o.fileSeq
        /\ disk' = o.disk
        /\ uuidSeq' = o.uuidSeq
        /\ lastOp' = [NoOp EXCEPT !.op = "process_file", !.user = u, !.size = f.size,
                                  !.exists = f.exists, !.fresp = resp, !.result = o.result,
                                  !.reason = o.reason, !.http = o.http]
    /\ UNCHANGED <<events, users, ctxVars, tasks, savedUids, markedUids, now>>

\* `with DatabaseManager() as db: r = db.save_file(u, uid, ...)`.
SaveFileRecord(u, uid, name, fail) ==
    LET r == crud_save_file(files, fileSeq, users, u, uid, FileExtension(name),
                            UploadPath(uid, FileExtension(name)), name, FALSE, fail)
    IN  /\ fileEvents < MaxFileEvents
        /\ fileEvents' = fileEvents + 1
        /\ files' = Exit(files, r.files, r.exc)
        /\ fileSeq' = Exit(fileSeq, r.fileSeq, r.exc)
        /\ savedUids' = IF r.accepted /\ fail = "none" THEN savedUids \cup {uid}
                        ELSE savedUids
        /\ lastOp' = [NoOp EXCEPT !.op = "crud_save_file", !.user = u, !.uid = uid,
                                  !.name = name, !.exc = r.exc, !.reason = fail,
                                  !.before = files,
                                  !.result = IF r.returned THEN "record" ELSE "none"]
        /\ UNCHANGED <<events, users, ctxVars, disk, uuidSeq, tasks, markedUids, now>>

\* `with DatabaseManager() as db: r = db.get_file_by_uid(uid)`.
GetFileByUid(uid) ==
    LET r == get_file_by_uid(files, uid)
    IN  /\ fileEvents < MaxFileEvents
        /\ fileEvents' = fileEvents + 1
        /\ lastOp' = [NoOp EXCEPT !.op = "get_file_by_uid", !.uid = uid, !.exc = r.exc,
                                  !.result = IF r.found THEN "record" ELSE "none",
                                  !.rec = r.rec]
        /\ UNCHANGED <<events, users, ctxVars, fileVars, now>>

\* `with DatabaseManager() as db: r = db.mark_file_processed(uid)`.
MarkFileProcessed(uid) ==
    LET r == mark_file_processed(files, uid)
    IN  /\ fileEvents < MaxFileEvents
        /\ fileEvents' = fileEvents + 1
        /\ files' = r.files
        /\ markedUids' = IF r.changed THEN markedUids \cup {uid} ELSE markedUids
        /\ lastOp' = [NoOp EXCEPT !.op = "mark_file_processed", !.uid = uid,
                                  !.result = IF r.changed THEN "true" ELSE "false"]
        /\ UNCHANGED <<events, users, ctxVars, fileSeq, disk, uuidSeq, tasks, savedUids, now>>

\* api_client.send_chat_request(model, messages) called on its own.
SendChatRequest(model, messages, resp) ==
    LET r == send_chat_request(model, messages, resp)
    IN  /\ lastOp' = [NoOp EXCEPT !.op = "send_chat_request", !.resp = resp, !.http = r.http,
                                  !.turns = messages,
                                  !.result = IF r.val.present THEN "response" ELSE "none"]
        /\ UNCHANGED <<users, ctxVars, fileVars, now, budgets>>

\* api_client.process_file(file_path, model) called on its own.
ApiProcessFile(f, model, resp) ==
    LET r == api_process_file(f.exists, f.size, model, resp)
    IN  /\ lastOp' = [NoOp EXCEPT !.op = "api_process_file", !.exists = f.exists,
                                  !.size = f.size, !.fresp = resp, !.http = r.http,
                                  !.result = IF r.val.present THEN "response" ELSE "none"]
        /\ UNCHANGED <<users, ctxVars, fileVars, now, budgets>>

\* api_client.get_available_models().
GetAvailableModels(resp) ==
    LET r == get_available_models(resp)
    IN  /\ lastOp' = [NoOp EXCEPT !.op = "get_available_models", !.http = r.http,
                                  !.reason = IF resp.present THEN "answered" ELSE "failed",
                                  !.result = IF r.val = NULL THEN "none" ELSE "response"]
        /\ UNCHANGED <<users, ctxVars, fileVars, now, budgets>>

\* api_client.check_api_status().
CheckApiStatus(outcome) ==
    LET r == check_api_status(outcome)
    IN  /\ lastOp' = [NoOp EXCEPT !.op = "check_api_status", !.http = r.http,
                                  !.reason = outcome,
                                  !.result = IF r.val THEN "true" ELSE "false"]
        /\ UNCHANGED <<users, ctxVars, fileVars, now, budgets>>

\* api_client.download_processed_file(file_url, save_path) called on its own.
DownloadProcessedFile(file_url, name, dl) ==
    LET r == download_processed_file(disk, file_url, ProcessedPath(name), dl)
    IN  /\ disk' = r.disk
        /\ lastOp' = [NoOp EXCEPT !.op = "download_processed_file", !.name = name,
                                  !.path = ProcessedPath(name), !.http = r.http,
                                  !.reason = dl,
                                  !.result = IF r.ok THEN "true" ELSE "false"]
        /\ UNCHANGED <<users, ctxVars, files, fileSeq, uuidSeq, tasks, savedUids, markedUids,
                       now, budgets>>

(***************************************************************************)
(* The event loop.  executor.start_polling runs every handler as a         *)
(* coroutine on one thread; a coroutine gives the thread up only at an     *)
(* await.  APIHandler._make_request and download_processed_file call       *)
(* requests.request / requests.get, which are synchronous: the thread      *)
(* stays inside the call until the response (or the timeout), and no other *)
(* coroutine runs meanwhile.                                               *)
(***************************************************************************)
\* The thread is inside the synchronous HTTP call of a process_file.
Blocked == \E t \in tasks : t.caller = "process_file"

\* A handle_clear_context is suspended in `await message.answer(...)` inside
\* its with block after a DELETE that ran: the transaction is open and its
\* connection holds SQLite's write lock.
UowOpen == \E t \in tasks : t.caller = "handle_clear_context" /\ t.locked

\* process_file reaches requests.request in _make_request; the file exists
\* and passes the size check, otherwise no request is made.
ProcessFileSend(u, model, f) ==
    /\ ~Blocked
    /\ fileEvents < MaxFileEvents
    /\ fileEvents' = fileEvents + 1
    /\ api_process_file(f.exists, f.size, model, AbsentFileResponse).http # <<>>
    /\ tasks' = tasks \cup {[uid |-> 0, user |-> u, name |-> "", size |-> f.size,
                             caller |-> "process_file", model |-> model]}
    /\ lastOp' = [NoOp EXCEPT !.op = "process_file_send", !.user = u, !.size = f.size,
                              !.exists = TRUE]
    /\ UNCHANGED <<events, users, ctxVars, files, fileSeq, disk, uuidSeq, savedUids,
                   markedUids, now>>

\* requests.request returns (or raises); process_file runs to its return.
ProcessFileReturn(t, resp) ==
    /\ t.caller = "process_file"
    /\ \E o \in process_file(files, fileSeq, users, disk, uuidSeq, TRUE, t.size, t.user,
                             t.model, resp) :
        /\ files' = o.files
        /\ fileSeq' = o.fileSeq
        /\ disk' = o.disk
        /\ uuidSeq' = o.uuidSeq
        /\ lastOp' = [NoOp EXCEPT !.op = "process_file", !.user = t.user, !.size = t.size,
                                  !.exists = TRUE, !.fresp = resp, !.result = o.result,
                                  !.reason = o.reason, !.http = o.http]
    /\ tasks' = tasks \ {t}
    /\ UNCHANGED <<users, ctxVars, savedUids, markedUids, now, budgets>>

\* /start of user u, dispatched by the loop.
LoopCmdStart(u, name) ==
    /\ ~Blocked
    /\ IF UowOpen
       THEN \* the INSERT raises sqlite3.Error, which create_user logs
            /\ lastOp' = [NoOp EXCEPT !.op = "cmd_start", !.user = u, !.name = name]
            /\ UNCHANGED <<users, ctxVars, fileVars, now, budgets>>
       ELSE CmdStart(u, name)

\* handle_clear_context up to the await of its first reply.  A DELETE issued
\* while another connection holds the write lock raises sqlite3.Error.
HandleClearContextBegin(u, fail) ==
    LET r == clear_context(context, u, fail)
    IN  /\ ~Blocked
        /\ UowOpen => fail # "none"
        /\ \A t \in tasks : t.caller = "handle_clear_context" => t.user # u
        /\ events < MaxEvents
        /\ events' = events + 1
        /\ tasks' = tasks \cup {[uid |-> 0, user |-> u, name |-> "", size |-> 0,
                                 caller |-> "handle_clear_context",
                                 locked |-> fail = "none", removed |-> r.removed]}
        /\ lastOp' = [NoOp EXCEPT !.op = "handle_clear_context_reply", !.user = u,
                                  !.reason = fail, !.before = RowsOf(context, u),
                                  !.reply = IF r.removed THEN "cleared" ELSE "not_cleared"]
        /\ UNCHANGED <<fileEvents, users, ctxVars, files, fileSeq, disk, uuidSeq, savedUids,
                       markedUids, now>>

\* The awaited reply returns or raises; __exit__ commits or rolls back and
\* swallows the exception, and the handler sends the main menu.
HandleClearContextEnd(t, exc) ==
    LET deleted == clear_context(context, t.user, "none").context
    IN  /\ t.caller = "handle_clear_context"
        /\ ~Blocked
        /\ context' = IF t.locked THEN Exit(context, deleted, exc) ELSE context
        /\ added' = IF t.locked /\ exc = "none" THEN [added EXCEPT ![t.user] = <<>>] ELSE added
        /\ tasks' = tasks \ {t}
        /\ lastOp' = [NoOp EXCEPT !.op = "handle_clear_context", !.user = t.user,
                                  !.before = RowsOf(context, t.user), !.exc = exc,
                                  !.result = IF t.removed THEN "true" ELSE "false",
                                  !.reply = "main_menu"]
        /\ UNCHANGED <<users, ctxSeq, files, fileSeq, disk, uuidSeq, savedUids, markedUids,
                       now, budgets>>

\* add_message_to_context of another coroutine; its INSERT raises
\* sqlite3.Error while the write lock is held elsewhere.
LoopAddContextMessage(u, m, fail) ==
    /\ ~Blocked
    /\ UowOpen => fail = "insert"
    /\ AddContextMessage(u, m, fail)

\* get_context of another coroutine; readers are not locked out.
LoopGetContext(u) ==
    /\ ~Blocked
    /\ GetContext(u)

(***************************************************************************)
(* TEMP_DIR over time.                                                     *)
(***************************************************************************)
\* The retention age passes: every file now in TEMP_DIR is older than it.
Age ==
    /\ \E f \in disk : ~f.expired
    /\ disk' = {[f EXCEPT !.expired = TRUE] : f \in disk}
    /\ lastOp' = [NoOp EXCEPT !.op = "age"]
    /\ UNCHANGED <<users, ctxVars, files, fileSeq, uuidSeq, tasks, savedUids, markedUids,
                   now, budgets>>

\* FileProcessor.cleanup_temp_files(), called on its own; failing is the file
\* at which stat or unlink raises, NoFile when none does.
CleanupTempFiles(order, failing) ==
    /\ disk' = cleanup_temp_files(disk, order, failing)
    /\ lastOp' = [NoOp EXCEPT !.op = "cleanup_temp_files", !.before = disk,
                              !.file = failing]
    /\ UNCHANGED <<users, ctxVars, files, fileSeq, uuidSeq, tasks, savedUids, markedUids,
                   now, budgets>>

\* The operations of the API Gateway, called on their own.
GatewayNext ==
    \/ \E model \in Models \cup {NULL}, messages \in RequestMessages, resp \in ChatResponses :
          SendChatRequest(model, messages, resp)
    \/ \E f \in InputFiles, model \in Models, resp \in FileResponses :
          ApiProcessFile(f, model, resp)
    \/ \E resp \in ModelsResponses : GetAvailableModels(resp)
    \/ \E outcome \in HealthOutcomes : CheckApiStatus(outcome)
    \/ \E file_url \in FileUrls, name \in SaveNames, dl \in DownloadOutcomes :
          DownloadProcessedFile(file_url, name, dl)

\* The operations on users and the conversation context.
ContextNext ==
    \/ Tick
    \/ \E u \in Users, name \in Usernames : CmdStart(u, name)
    \/ \E u \in Users, model \in Models : UpdateUserModel(u, model)
    \/ \E u \in Users, m \in Messages, fail \in Failures : AddContextMessage(u, m, fail)
    \/ \E u \in Users : GetContext(u)
    \/ \E u \in Users, fail \in {"none", "delete"} : ClearContext(u, fail)
    \/ \E u \in Users, text \in Texts, resp \in ChatResponses : HandleText(u, text, resp)

\* The operations on users, file records and TEMP_DIR.
FilesNext ==
    \/ \E u \in Users, name \in Usernames : CmdStart(u, name)
    \/ \E u \in Users, name \in OriginalNames, size \in FileSizes : HandleDocument(u, name, size)
    \/ \E u \in Users, name \in OriginalNames, size \in FileSizes : SaveFile(u, name, size)
    \/ \E t \in tasks, outcome \in DownloadOutcomes : DownloadDone(t, outcome)
    \/ \E u \in Users, model \in Models, f \in InputFiles, resp \in FileResponses :
          ProcessFile(u, model, f, resp)
    \/ \E u \in Users, uid \in CallerUids, name \in OriginalNames, fail \in FileFailures :
          SaveFileRecord(u, uid, name, fail)
    \/ \E uid \in CallerUids : GetFileByUid(uid)
    \/ \E uid \in CallerUids : MarkFileProcessed(uid)

Next == ContextNext \/ FilesNext \/ GatewayNext

Spec == Init /\ [][Next]_vars

(***************************************************************************)
(* The context operations write context, ctxSeq, added and read now; the   *)
(* file operations write files, fileSeq, disk, uuidSeq, tasks and the uid   *)
(* sets.                                                                   *)
(* Neither group reads what the other writes, so every behaviour of Spec,  *)
(* with the steps of the other group left out, is a behaviour of the       *)
(* sub-specification.                                                      *)
(***************************************************************************)
SpecContext == Init /\ [][ContextNext]_vars

SpecFiles == Init /\ [][FilesNext]_vars

\* The Gateway holds no state of its own: its operations write TEMP_DIR (the
\* download) and nothing else.
SpecGateway == Init /\ [][GatewayNext]_vars

\* The coroutines of the event loop: process_file around its HTTP call,
\* handle_clear_context around its reply, and the handlers that run between.
LoopNext ==
    \/ Tick
    \/ \E u \in Users, model \in Models, f \in InputFiles : ProcessFileSend(u, model, f)
    \/ \E t \in tasks, resp \in FileResponses : ProcessFileReturn(t, resp)
    \/ \E u \in Users, name \in Usernames : LoopCmdStart(u, name)
    \/ \E u \in Users, fail \in {"none", "delete"} : HandleClearContextBegin(u, fail)
    \/ \E t \in tasks, exc \in {"none", "reply_failed"} : HandleClearContextEnd(t, exc)
    \/ \E u \in Users, m \in Messages, fail \in Failures : LoopAddContextMessage(u, m, fail)
    \/ \E u \in Users : LoopGetContext(u)

SpecLoop == Init /\ [][LoopNext]_vars

\* What writes TEMP_DIR, the passing of the retention age, and the sweep.
SweepNext ==
    \/ \E u \in Users, name \in OriginalNames, size \in FileSizes : SaveFile(u, name, size)
    \/ \E t \in tasks, outcome \in DownloadOutcomes : DownloadDone(t, outcome)
    \/ \E u \in Users, model \in Models, f \in InputFiles, resp \in FileResponses :
          ProcessFile(u, model, f, resp)
    \/ \E file_url \in FileUrls, name \in SaveNames, dl \in DownloadOutcomes :
          DownloadProcessedFile(file_url, name, dl)
    \/ Age
    \/ \E order \in Perms(disk), failing \in disk \cup {NoFile} :
          CleanupTempFiles(order, failing)

SpecSweep == Init /\ [][SweepNext]_vars

\* What the running program does by itself: time passes, and a save_file
\* suspended in its download resumes.  main() registers the handlers and
\* starts polling; nothing in the program calls cleanup_temp_files, so the
\* sweep runs only if something outside calls it.
SweepFairness ==
    /\ WF_vars(Age)
    /\ WF_vars(\E t \in tasks, outcome \in DownloadOutcomes : DownloadDone(t, outcome))

SpecSweepFair == SpecSweep /\ SweepFairness

(***************************************************************************)
(* Properties.                                                             *)
(***************************************************************************)

\* C1: in every committed state each user holds at most MAX_CONTEXT_LENGTH
\* context messages, also when a storage error occurs in the middle of
\* addContextMessage.
C1_WindowBound ==
    \A u \in Users : Cardinality(RowsOf(context, u)) <= MAX_CONTEXT_LENGTH

\* C2: what getContext selects for a user is exactly the last
\* min(k, MAX_CONTEXT_LENGTH) messages added for that user, in call order.
C2_OrderAndVictim ==
    \A u \in Users : \A s \in SelectContext(context, u) :
        [i \in 1..Len(s) |-> s[i].id] = LastN(added[u], MAX_CONTEXT_LENGTH)

\* C3: after a text message whose chat request the Gateway answers with
\* content c, the stored context of the user holds the user's turn followed by
\* an assistant turn c, and the reply to the transport is exactly c.
C3_TextExchange ==
    (lastOp.op = "handle_text" /\ lastOp.resp.present /\ lastOp.resp.choices) =>
        /\ lastOp.reply = lastOp.resp.content
        /\ \E r1, r2 \in RowsOf(context, lastOp.user) :
              /\ r1.role = "user" /\ r1.content = lastOp.text
              /\ r2.role = "assistant" /\ r2.content = lastOp.resp.content
              /\ r1.id < r2.id

\* C4: handling a text message m sends the Gateway one chat request whose
\* messages are the stored context followed by the user turn m, cut to the
\* last MAX_CONTEXT_LENGTH entries.
C4_RequestContext ==
    lastOp.op = "handle_text" =>
        /\ Len(lastOp.http) = 1
        /\ lastOp.http[1].endpoint = "chat/completions"
        /\ \E s \in SelectContext(lastOp.before, lastOp.user) :
              lastOp.http[1].messages =
                  LastN(Append([i \in 1..Len(s) |-> Turn(s[i])],
                               [role |-> "user", content |-> lastOp.text]),
                        MAX_CONTEXT_LENGTH)

\* The download requests among the requests of the last operation.
Downloads(http) == {i \in 1..Len(http) : http[i].endpoint = "download"}

\* C5: when processFile returned a response with a file_url and the result
\* was downloaded, the download was requested exactly once with that URL and a
\* FileRecord of the result exists with processed = true under the freshly
\* generated file_uid.
C5_FileResultIngestion ==
    (lastOp.op = "process_file" /\ lastOp.result = "file") =>
        /\ Cardinality(Downloads(lastOp.http)) = 1
        /\ \A i \in Downloads(lastOp.http) : lastOp.http[i].url = lastOp.fresp.file_url
        /\ \E r \in files : r.processed /\ r.file_uid = uuidSeq

\* C6: for a file larger than MAX_FILE_SIZE the pipeline makes no Gateway
\* request and returns no result.
C6_OversizeNoGateway ==
    (lastOp.op \in {"handle_document", "save_file", "process_file"}
        /\ lastOp.exists /\ lastOp.size > MAX_FILE_SIZE) =>
        /\ lastOp.http = <<>>
        /\ lastOp.result = "none"
        /\ lastOp.op = "handle_document" => lastOp.reply \in {"too_large", "save_error"}

\* C6 witness: process_file was called on an existing oversized file.
C6_Witness ==
    lastOp.op = "process_file" /\ lastOp.exists /\ lastOp.size > MAX_FILE_SIZE
        /\ lastOp.fresp.present

RejectionReasons == {"too_large", "unknown_type", "unsupported_type"}

\* C7: when validation rejects a file, its bytes are gone from TEMP_DIR, no
\* FileRecord exists for it, and the pipeline has stopped: no result, no
\* Gateway request.
C7_RejectedLeavesNothing ==
    (lastOp.op \in {"handle_document", "save_file"} /\ lastOp.reason \in RejectionReasons) =>
        /\ lastOp.path \notin DiskPaths(disk)
        /\ \A r \in files : r.file_uid # lastOp.uid /\ r.file_path # lastOp.path
        /\ lastOp.result = "none"
        /\ lastOp.http = <<>>
        /\ lastOp.op = "handle_document" => lastOp.reply \in {"too_large", "save_error"}

\* C7 witness: a downloaded upload was rejected by _validate_file.
C7_Witness ==
    /\ lastOp.op = "handle_document"
    /\ lastOp.reason \in RejectionReasons
    /\ lastOp.path # NoPath

\* C9: an upload of a file within the size limit and of an allowed type
\* leaves a FileRecord with processed = false, and once the pipeline has
\* ingested a result for it that record is processed = true.
C9_UploadedBecomesProcessed ==
    /\ (lastOp.op \in {"handle_document", "save_file"}
          /\ lastOp.reason # "download_failed" /\ lastOp.path # NoPath
          /\ lastOp.size <= MAX_FILE_SIZE
          /\ FileExtension(lastOp.name) \in ALLOWED_FILE_TYPES
          /\ lastOp.user \in UserIds(users)) =>
            \E r \in files : r.file_uid = lastOp.uid
    /\ \A r \in files :
          r.file_path.kind = "upload" =>
              (r.processed <=> (lastOp.op = "handle_document" /\ lastOp.uid = r.file_uid
                                  /\ lastOp.reply \in {"document", "text_result"})
                               \/ r.file_uid \in markedUids)

\* C10: after a saveFile(f) that the storage accepted, getFileByUid(f) returns
\* the record of f, with processed = false until markFileProcessed(f) returned
\* true and processed = true afterwards.
C10_FileRoundTrip ==
    (lastOp.op = "get_file_by_uid" /\ lastOp.uid \in savedUids) =>
        /\ lastOp.result = "record"
        /\ lastOp.rec.file_uid = lastOp.uid
        /\ lastOp.rec.processed = (lastOp.uid \in markedUids)

\* C11: no two FileRecords have the same file_uid.
C11_FileUidUnique ==
    \A r1, r2 \in files : r1.file_uid = r2.file_uid => r1 = r2

\* C11 witness: save_file was called with the file_uid of a record that
\* exists, and the table still holds that one record.
C11_Witness ==
    /\ lastOp.op = "crud_save_file"
    /\ lastOp.uid \in FileUidsOf(lastOp.before)
    /\ lastOp.uid \in FileUidsOf(files)

\* C12: clearContext(u) leaves no message of u, a getContext(u) right after
\* it returns the empty sequence, and it returns true iff it removed a message;
\* when the DELETE fails it returns false and removes nothing.
C12_ClearContext ==
    lastOp.op = "clear_context" =>
        IF lastOp.reason = "none"
        THEN /\ RowsOf(context, lastOp.user) = {}
             /\ get_context(context, lastOp.user) = {[exc |-> "none", val |-> <<>>]}
             /\ (lastOp.result = "true") <=> (lastOp.before # {})
        ELSE /\ lastOp.result = "false"
             /\ RowsOf(context, lastOp.user) = lastOp.before

\* C12 witness: clearContext removed the stored messages of a user.
C12_Witness ==
    /\ lastOp.op = "clear_context"
    /\ lastOp.before # {}
    /\ lastOp.result = "true"
    /\ RowsOf(context, lastOp.user) = {}

\* C13: a Repository operation one of whose statements failed returns
\* absent/false without raising and leaves none of its changes committed: a
\* failed addContextMessage stores no message, a failed saveFile no record, a
\* failed clearContext removes nothing.
C13_FailureAtomicity ==
    /\ (lastOp.op = "add_message_to_context" /\ lastOp.reason # "none") =>
            lastOp.exc = "none" /\ lastOp.result = "none"
    /\ (lastOp.op = "crud_save_file" /\ lastOp.reason # "none") =>
            lastOp.exc = "none" /\ lastOp.result = "none" /\ files = lastOp.before
    /\ (lastOp.op = "clear_context" /\ lastOp.reason # "none") =>
            lastOp.result = "false" /\ RowsOf(context, lastOp.user) = lastOp.before

\* C14: createUser for an id that already exists changes nothing: the
\* username and the selected model of the existing row are kept.
C14_CreateUserIdempotent ==
    [][\A u \in Users, name \in Usernames :
          (CmdStart(u, name) /\ u \in UserIds(users)) => users' = users]_vars

\* C14 witness: /start came from a user whose row holds another username and
\* a selected model, and the row is as it was.
C14_Witness ==
    /\ lastOp.op = "cmd_start"
    /\ \E r \in users : r.id = lastOp.user /\ r.username # lastOp.name /\ r.model # NULL

\* C15: once the core has handled an event of a user (command, text message
\* or document), a User record of that id exists.
C15_UserExistsAfterContact ==
    lastOp.op \in {"cmd_start", "handle_text", "handle_document"} =>
        lastOp.user \in UserIds(users)

\* C16: a text message of a user who has no model selected is answered with
\* the "no model selected" outcome, and the handler does not raise.
C16_NoModelSelected ==
    (lastOp.op = "handle_text"
        /\ \E r \in users : r.id = lastOp.user /\ r.model = NULL) =>
        lastOp.exc = "none" /\ lastOp.reply = "no_model_selected"

\* C17: when the Gateway answers a chat request with content c and the
\* assistant turn does not get stored, the reply c is delivered all the same.
C17_ReplyDespiteFailedWrite ==
    (lastOp.op = "handle_text" /\ lastOp.resp.present /\ lastOp.resp.choices
        /\ lastOp.user \in UserIds(users)
        /\ ~\E r \in RowsOf(context, lastOp.user) \ lastOp.before : r.role = "assistant") =>
        lastOp.reply = lastOp.resp.content

\* C18: when the processFile response is absent or the download of the result
\* fails, process_file returns no result and no FileRecord of a result file
\* with processed = true exists.
C18_FailedProcessingNoRecord ==
    (lastOp.op = "process_file"
        /\ (~lastOp.fresp.present \/ lastOp.reason = "download_failed")) =>
        /\ lastOp.result = "none"
        /\ \A r \in files : r.file_path.kind = "processed" => ~r.processed

\* C18 witness: the Gateway answered with a file_url and the download failed.
C18_Witness ==
    /\ lastOp.op = "process_file"
    /\ lastOp.reason = "download_failed"
    /\ Len(lastOp.http) = 2

\* C19: whenever downloadProcessedFile returned false, no partially written
\* file is at its destination path.
C19_DownloadFailsClosed ==
    (lastOp.op = "download_processed_file" /\ lastOp.result = "false") =>
        \A f \in disk : f.path = lastOp.path => ~f.partial

GatewayOps ==
    {"send_chat_request", "api_process_file", "get_available_models", "check_api_status",
     "download_processed_file"}

\* C20: one invocation of a Gateway operation issues at most one HTTP
\* request, and a failed request yields an absent or false result.
C20_NoRetry ==
    lastOp.op \in GatewayOps =>
        /\ Len(lastOp.http) <= 1
        /\ (lastOp.op = "send_chat_request" /\ ~lastOp.resp.present) => lastOp.result = "none"
        /\ (lastOp.op = "api_process_file" /\ ~lastOp.fresp.present) => lastOp.result = "none"
        /\ (lastOp.op = "get_available_models" /\ lastOp.reason = "failed") =>
              lastOp.result = "none"
        /\ (lastOp.op = "check_api_status" /\ lastOp.reason = "fail") => lastOp.result = "false"
        /\ (lastOp.op = "download_processed_file" /\ lastOp.reason # "ok") =>
              lastOp.result = "false"

\* C20 witness: a chat request failed and was sent once.
C20_Witness ==
    /\ lastOp.op = "send_chat_request"
    /\ ~lastOp.resp.present
    /\ Len(lastOp.http) = 1

\* C21: while a Gateway HTTP call issued for one user's event is in flight,
\* an inbound event of an unrelated user (here /start) can still be handled
\* to completion.
C21_OtherUsersNotBlocked ==
    \A t \in tasks : \A v \in Users :
        (t.caller = "process_file" /\ v # t.user)
            => ENABLED (\E name \in Usernames : LoopCmdStart(v, name))

\* C22: no unit of work spans a network wait, so a failure of the awaited
\* reply never undoes it: when clear_context returned True inside
\* handle_clear_context, the user's messages are gone once the handler ends.
C22_ReplyFailureUndoesNothing ==
    (lastOp.op = "handle_clear_context" /\ lastOp.result = "true")
        => RowsOf(context, lastOp.user) = {}

\* The paths a file of TEMP_DIR can have.
TempPaths ==
    {ProcessedPath(n) : n \in SaveNames}
        \cup {UploadPath(i, FileExtension(n)) : i \in 1..(MaxFileEvents + 1), n \in OriginalNames}

\* A file past the retention age that no FileRecord names and no running
\* save_file is writing.
ExpiredOrphan(p) ==
    /\ \E f \in disk : f.path = p /\ f.expired
    /\ \A r \in files : r.file_path # p
    /\ \A t \in tasks : UploadPath(t.uid, FileExtension(t.name)) # p

\* C23: a file left in TEMP_DIR without a FileRecord is eventually deleted
\* by the cleanup sweep once it is older than the retention age.
C23_OrphansEventuallyDeleted ==
    \A p \in TempPaths : ExpiredOrphan(p) ~> (p \notin DiskPaths(disk))

\* C24: one sweep deletes every file older than the retention age and no
\* younger file; a failure at one file does not keep the other expired
\* files from being deleted in that sweep.
C24_SweepFaultTolerant ==
    lastOp.op = "cleanup_temp_files"
        => /\ \A f \in lastOp.before : (f.expired /\ f # lastOp.file) => f \notin disk
           /\ \A f \in lastOp.before : ~f.expired => f \in disk

\* C25: every file the pipeline persists is written under a name derived
\* from its generated identifier, so storing a processing result never
\* overwrites a file that is already in TEMP_DIR.
C25_StoreNeverOverwrites ==
    [][\A u \in Users, model \in Models, f \in InputFiles, resp \in FileResponses :
          (ProcessFile(u, model, f, resp) /\ lastOp'.result = "file")
              => ProcessedPath(resp.original_name) \notin DiskPaths(disk)]_vars

C27_FailedChatChangesNothing ==
    (lastOp.op = "handle_text" /\ (~lastOp.resp.present \/ ~lastOp.resp.choices)) =>
        /\ lastOp.reply = "no_answer"
        /\ RowsOf(context, lastOp.user) = lastOp.before

====
